---- MODULE Spec2Model ----
(***************************************************************************)
(* RealMultiLLM: the request dispatcher (LLMManager, EnhancedLLMManager),  *)
(* its response cache, provider registry, request batcher, and the         *)
(* retrying concurrency governor (RequestQueue).                           *)
(*                                                                         *)
(* asyncio runs coroutines cooperatively: a handler runs atomically from   *)
(* one suspension point to the next.  Each action below is one such run.   *)
(***************************************************************************)
EXTENDS Integers, Sequences, FiniteSets, TLC

(***************************************************************************)
(* Bounds of the model.                                                    *)
(***************************************************************************)
MaxCalls == 2       \* generate calls issued in one behaviour
MaxCacheSize == 2   \* cache_size is drawn from 1..MaxCacheSize
MaxOps == 3         \* generate calls plus direct _update_cache calls (SpecCache)
MaxTasks == 3       \* execute_with_retry calls in one behaviour (SpecQueue)
MaxConcurrent == 2  \* max_concurrent is drawn from 1..MaxConcurrent
MaxBatchCalls == 2  \* generate calls in one behaviour (SpecEnhanced)
MaxBatchSize == 2   \* batch_size is drawn from 1..MaxBatchSize
MaxRegistrations == 2   \* register_provider calls in one behaviour (SpecEnhanced)
MaxTimerCalls == 3  \* generate calls of a batching manager (SpecTimers)
MaxTimerBatch == 3  \* batch_size is drawn from 1..MaxTimerBatch (SpecTimers)
MaxPoolSize == 2    \* max_pool_size is drawn from 1..MaxPoolSize (SpecPool)
MaxPoolGets == 3    \* get_provider calls that find an instance (SpecPool)

\* RequestQueue.__init__'s default max_retries; max_retries is drawn from 1..it
DefaultMaxRetries == 3

\* RequestBatcher.__init__'s default batch_size, the one EnhancedLLMManager
\* uses; a RequestBatcher can be given any other
DefaultBatchSize == 5

\* ProviderPool.__init__'s default max_pool_size, the one EnhancedLLMManager uses
DefaultMaxPoolSize == 10

(***************************************************************************)
(* Input domains.                                                          *)
(***************************************************************************)
None == "None"

\* ProviderType members used as registry keys
Kinds == {"openai", "anthropic"}

\* provider instances (objects implementing LLMProvider)
Providers == {"p1", "p2"}

Prompts == {"a", "b"}
MaxTokensValues == {50, 100}
\* temperature in tenths: 7 stands for 0.7
Temperatures == {7}
Metadatas == {None, "m1"}
Preferences == {<<>>, <<"openai">>, <<"anthropic">>,
                <<"openai", "anthropic">>, <<"anthropic", "openai">>}
\* the wall-clock latency generate measures and stamps into a response
Latencies == {1}

\* the requests drawn as inputs: three fingerprints, every preference list
LLMRequest ==
    {r \in [prompt : Prompts, max_tokens : MaxTokensValues,
            temperature : Temperatures,
            provider_preferences : Preferences, metadata : Metadatas] :
        r.prompt = "a" \/ r.max_tokens = 100}

VARIABLES
    providers,      \* _providers: dict in insertion order, <<[kind, provider]>>
    request_cache,  \* _request_cache: dict in insertion order, <<[key, response]>>
    cache_size,     \* _cache_size
    stats,          \* _stats
    healthy,        \* what each provider's health_check() returns now
    inflight,       \* suspended generate calls: call id -> [key, provider, fields]
    issued,         \* number of generate calls made so far
    inserts,        \* number of direct _update_cache calls so far
    insert_log,     \* the keys _update_cache was called with, in call order
    last,           \* what the most recent step did and returned
    \* RequestQueue
    semaphore,      \* _semaphore: its _value and its _waiters, first come first
    max_concurrent, \* the Semaphore's initial value
    max_retries,    \* _max_retries
    retry,          \* the execute_with_retry calls: task -> its position and record
    \* EnhancedLLMManager
    enable_batching,    \* whether _request_batcher is a RequestBatcher
    \* ProviderPool
    pools,          \* _pools: dict in insertion order, <<[kind, <<provider>>]>>
    pool_usage,     \* _pool_usage: dict in insertion order, <<[kind, cursor]>>
    max_pool_size,  \* _max_pool_size
    \* RequestBatcher
    batch_size,         \* _batch_size
    pending_requests,   \* _pending_requests: <<[call, provider, fields]>>
    batch_lock,         \* _batch_lock: [holder, waiters]
    callers,        \* add_request calls: call -> [pc] or [pc, item]
    futures,        \* the future of each add_request call: call -> [state, response]
    timers,         \* _timeout_handler tasks, named by the call that created them
    tasks           \* _execute_request tasks: call -> [pc, owner, provider, fields]

\* LLMManager's state but for the record of the calls made
dispatcher_vars == <<providers, request_cache, cache_size, stats, healthy, inflight,
                     inserts, insert_log>>
manager_vars == <<dispatcher_vars, issued, last>>
queue_vars == <<semaphore, max_concurrent, max_retries, retry>>
pool_vars == <<pools, pool_usage, max_pool_size>>
batch_vars == <<enable_batching, batch_size, pending_requests, batch_lock, callers,
                futures, timers, tasks>>
\* what no method of LLMManager touches
beyond_manager == <<queue_vars, pool_vars, batch_vars>>

vars == <<manager_vars, queue_vars, pool_vars, batch_vars>>

(***************************************************************************)
(* Helpers on insertion-ordered dicts.                                     *)
(***************************************************************************)
RECURSIVE IndexOf(_, _, _)
IndexOf(dict, field, i) ==
    IF i > Len(dict) THEN 0
    ELSE IF dict[i][1] = field THEN i
    ELSE IndexOf(dict, field, i + 1)

\* position of key k in dict d (0 when absent); entries are <<key, value>>
Pos(d, k) == IndexOf(d, k, 1)
Has(d, k) == Pos(d, k) # 0
Get(d, k) == d[Pos(d, k)][2]
KeysOf(d) == {d[i][1] : i \in 1..Len(d)}

\* d[k] = v : an existing key keeps its place, a new key goes last
Put(d, k, v) ==
    IF Has(d, k) THEN [d EXCEPT ![Pos(d, k)] = <<k, v>>]
    ELSE Append(d, <<k, v>>)

\* del d[d's i-th key]
DelAt(d, i) == SubSeq(d, 1, i - 1) \o SubSeq(d, i + 1, Len(d))

(***************************************************************************)
(* LLMManager._create_cache_key                                            *)
(***************************************************************************)
\* str() of a float given in tenths
FormatFloat(t) == ToString(t \div 10) \o "." \o ToString(t % 10)

\* hashlib.md5(...).hexdigest(), taken to be collision free
Md5Hex(s) == "md5(" \o s \o ")"

\* a key that also depends on the request's metadata
CreateCacheKeyWithMetadata(request) ==
    Md5Hex(request.prompt \o ":" \o ToString(request.max_tokens) \o ":"
           \o FormatFloat(request.temperature) \o ":" \o request.metadata)

CreateCacheKey(request) ==
    Md5Hex(request.prompt \o ":" \o ToString(request.max_tokens) \o ":"
           \o FormatFloat(request.temperature))

(***************************************************************************)
(* LLMManager._update_cache                                                *)
(***************************************************************************)
\* eviction only once the cache is over its capacity
UpdateCacheLate(cache, size, key, response) ==
    LET trimmed == IF Len(cache) > size THEN DelAt(cache, 1) ELSE cache
    IN  Put(trimmed, key, response)

\* eviction of the newest entry
UpdateCacheNewest(cache, size, key, response) ==
    LET trimmed == IF Len(cache) >= size THEN DelAt(cache, Len(cache)) ELSE cache
    IN  Put(trimmed, key, response)

UpdateCache(cache, size, key, response) ==
    LET trimmed == IF Len(cache) >= size THEN DelAt(cache, 1) ELSE cache
    IN  Put(trimmed, key, response)

(***************************************************************************)
(* LLMManager._select_optimal_provider                                     *)
(* The result is [provider, probed]: the provider returned (None when the  *)
(* RuntimeError is raised) and the providers whose health_check ran.       *)
(***************************************************************************)
\* a fallback that settles for the first registered provider
SelectFallbackAny(reg, health, i, probed) ==
    IF i > Len(reg) THEN [provider |-> None, probed |-> probed]
    ELSE [provider |-> reg[i][2], probed |-> probed \cup {reg[i][2]}]

RECURSIVE SelectFallback(_, _, _, _)
SelectFallback(reg, health, i, probed) ==
    IF i > Len(reg) THEN [provider |-> None, probed |-> probed]
    ELSE IF health[reg[i][2]]
         THEN [provider |-> reg[i][2], probed |-> probed \cup {reg[i][2]}]
         ELSE SelectFallback(reg, health, i + 1, probed \cup {reg[i][2]})

RECURSIVE SelectPreferred(_, _, _, _, _)
SelectPreferred(reg, health, prefs, i, probed) ==
    IF i > Len(prefs) THEN SelectFallback(reg, health, 1, probed)
    ELSE IF Has(reg, prefs[i])
         THEN LET p == Get(reg, prefs[i])
              IN  IF health[p]
                  THEN [provider |-> p, probed |-> probed \cup {p}]
                  ELSE SelectPreferred(reg, health, prefs, i + 1, probed \cup {p})
         ELSE SelectPreferred(reg, health, prefs, i + 1, probed)

\* selection on a remembered verdict: every provider is taken to be healthy
SelectOptimalProviderStale(reg, health, request) ==
    SelectPreferred(reg, [p \in Providers |-> TRUE],
                    request.provider_preferences, 1, {})

\* selection that never looks at the preferences
SelectOptimalProviderNoPrefs(reg, health, request) ==
    SelectFallback(reg, health, 1, {})

SelectOptimalProvider(reg, health, request) ==
    SelectPreferred(reg, health, request.provider_preferences, 1, {})

(***************************************************************************)
(* What a step reports in `last`.                                          *)
(***************************************************************************)
NoResponse == [content |-> None, provider |-> None, latency_ms |-> 0]

\* the LLMResponse provider p makes for a request, before generate stamps a
\* measured latency into it
ProviderResponse(p, fields) ==
    [content |-> p \o ": " \o fields[1], provider |-> p, latency_ms |-> 0]

Event(op, call, key, outcome, response, error, invoked, evicted) ==
    [op |-> op, call |-> call, key |-> key, fields |-> <<>>, prefs |-> <<>>,
     outcome |-> outcome,
     response |-> response, error |-> error, invoked |-> invoked,
     evicted |-> evicted]

\* the fields of a request that _create_cache_key reads
CacheFields(request) == <<request.prompt, request.max_tokens, request.temperature>>

\* a step made for a request reports the request's cacheable fields
For(event, fields) == [event EXCEPT !.fields = fields]

\* a step that ran provider selection also reports the preferences it was given
Selected(event, request) ==
    [event EXCEPT !.prefs = request.provider_preferences]

NoEvent == Event("init", 0, None, "none", NoResponse, None, None, {})

\* the keys a cache update removed
Evicted(before, after) == KeysOf(before) \ KeysOf(after)

InitManager ==
    /\ providers = <<>>
    /\ request_cache = <<>>
    /\ cache_size \in 1..MaxCacheSize
    /\ stats = [requests_total |-> 0, cache_hits |-> 0, errors |-> 0]
    /\ healthy \in [Providers -> BOOLEAN]
    /\ inflight = <<>>
    /\ issued = 0
    /\ inserts = 0
    /\ insert_log = <<>>
    /\ last = NoEvent

\* asyncio.Semaphore(n)
Semaphore(n) == [value |-> n, waiters |-> <<>>]

\* RequestQueue.__init__
NewTask == [pc |-> "new", attempt |-> 0, awaited |-> FALSE, runs |-> 0,
            waits |-> <<>>, result |-> None]

InitQueue ==
    /\ max_concurrent \in 1..MaxConcurrent
    /\ max_retries \in 1..DefaultMaxRetries
    /\ semaphore = Semaphore(max_concurrent)
    /\ retry = [t \in 1..MaxTasks |-> NewTask]

\* a RequestQueue nothing is submitted to
IdleQueue ==
    /\ max_concurrent = 1
    /\ max_retries = DefaultMaxRetries
    /\ semaphore = Semaphore(1)
    /\ retry = <<>>

\* an LLMManager nothing is asked of
IdleManager ==
    /\ InitManager
    /\ cache_size = 1
    /\ healthy = [p \in Providers |-> TRUE]

\* ProviderPool.__init__
InitPool ==
    /\ pools = <<>>
    /\ pool_usage = <<>>
    /\ max_pool_size = DefaultMaxPoolSize

\* a caller, a future, a timer or a task that does not exist (yet, or any more)
Absent == [pc |-> "none"]
\* no add_request call and no _timeout_handler task
NoOwner == <<>>
\* `wave` is the flush whose task settled the future
NoFuture == [state |-> "none", response |-> NoResponse, wave |-> NoOwner]
Unlocked == [holder |-> NoOwner, waiters |-> <<>>]

\* RequestBatcher.__init__, for at most n add_request calls
InitBatcher(n) ==
    /\ pending_requests = <<>>
    /\ batch_lock = Unlocked
    /\ callers = [c \in 1..n |-> Absent]
    /\ futures = [c \in 1..n |-> NoFuture]
    /\ timers = [c \in 1..n |-> "none"]
    /\ tasks = [c \in 1..n |-> Absent]

\* LLMManager has neither pool nor batcher
NoBatcher ==
    /\ enable_batching = FALSE
    /\ batch_size = 1
    /\ InitBatcher(0)

Init == InitManager /\ IdleQueue /\ InitPool /\ NoBatcher

(***************************************************************************)
(* LLMManager.register_provider                                            *)
(***************************************************************************)
\* what provider.health_check() returned to register_provider
Probe(health, p) == IF health[p] THEN "healthy" ELSE "unhealthy"

\* registration that fails closed: an unhealthy provider is not stored
RegisterProviderIfHealthy(kind, p) ==
    /\ providers' = IF healthy[p] THEN Put(providers, kind, p) ELSE providers
    /\ last' = Event("register", 0, None, Probe(healthy, p), NoResponse, None,
                     None, {})
    /\ UNCHANGED <<request_cache, cache_size, stats, healthy, inflight, issued,
                   inserts, insert_log>>
    /\ UNCHANGED beyond_manager

RegisterProvider(kind, p) ==
    /\ providers' = Put(providers, kind, p)
    /\ last' = Event("register", 0, None, Probe(healthy, p), NoResponse, None,
                     None, {})
    /\ UNCHANGED <<request_cache, cache_size, stats, healthy, inflight, issued,
                   inserts, insert_log>>
    /\ UNCHANGED beyond_manager

\* the environment: a provider's health changes
SetHealth(p, h) ==
    /\ healthy[p] # h
    /\ healthy' = [healthy EXCEPT ![p] = h]
    /\ last' = Event("health", 0, None, "none", NoResponse, None, None, {})
    /\ UNCHANGED <<providers, request_cache, cache_size, stats, inflight, issued,
                   inserts, insert_log>>
    /\ UNCHANGED beyond_manager

\* a generate that selects a provider, probing health, before it looks in
\* the cache
GenerateSelectingFirst(request) ==
    /\ LET call == issued + 1
           key == CreateCacheKey(request)
           sel == SelectOptimalProvider(providers, healthy, request)
       IN
       /\ issued' = call
       /\ IF sel.provider = None
          THEN /\ stats' = [stats EXCEPT !.requests_total = @ + 1]
               /\ last' = Selected(For(Event("generate", call, key, "error",
                                             NoResponse,
                                             "No healthy providers available",
                                             None, {}),
                                       CacheFields(request)),
                                   request)
               /\ UNCHANGED inflight
          ELSE IF Has(request_cache, key)
          THEN /\ stats' = [stats EXCEPT !.requests_total = @ + 1,
                                         !.cache_hits = @ + 1]
               /\ last' = For(Event("generate", call, key, "response",
                                    Get(request_cache, key), None, None, {}),
                              CacheFields(request))
               /\ UNCHANGED inflight
          ELSE /\ stats' = [stats EXCEPT !.requests_total = @ + 1]
               /\ inflight' = Put(inflight, call,
                                  [key |-> key, provider |-> sel.provider,
                                   fields |-> CacheFields(request),
                                   attempts |-> 1])
               /\ last' = Selected(For(Event("generate", call, key, "pending",
                                             NoResponse, None, sel.provider, {}),
                                       CacheFields(request)),
                                   request)
    /\ UNCHANGED <<providers, request_cache, cache_size, healthy, inserts,
                   insert_log>>
    /\ UNCHANGED beyond_manager

(***************************************************************************)
(* LLMManager.generate, from its entry to its first suspension             *)
(* (await provider.generate) or to its return or raise.                    *)
(***************************************************************************)
Generate(request) ==
    /\ LET call == issued + 1
           key == CreateCacheKey(request)
           sel == SelectOptimalProvider(providers, healthy, request)
       IN
       /\ issued' = call
       /\ IF Has(request_cache, key)
          THEN \* cache hit
               /\ stats' = [stats EXCEPT !.requests_total = @ + 1,
                                         !.cache_hits = @ + 1]
               /\ last' = For(Event("generate", call, key, "response",
                                    Get(request_cache, key), None, None, {}),
                              CacheFields(request))
               /\ UNCHANGED inflight
          ELSE IF sel.provider = None
          THEN \* RuntimeError raised outside the try block
               /\ stats' = [stats EXCEPT !.requests_total = @ + 1]
               /\ last' = Selected(For(Event("generate", call, key, "error",
                                             NoResponse,
                                             "No healthy providers available",
                                             None, {}),
                                       CacheFields(request)),
                                   request)
               /\ UNCHANGED inflight
          ELSE \* provider.generate(request) is called and suspends
               /\ stats' = [stats EXCEPT !.requests_total = @ + 1]
               /\ inflight' = Put(inflight, call,
                                  [key |-> key, provider |-> sel.provider,
                                   fields |-> CacheFields(request),
                                   \* awaits of provider.generate so far
                                   attempts |-> 1])
               /\ last' = Selected(For(Event("generate", call, key, "pending",
                                             NoResponse, None, sel.provider, {}),
                                       CacheFields(request)),
                                   request)
    /\ UNCHANGED <<providers, request_cache, cache_size, healthy, inserts,
                   insert_log>>
    /\ UNCHANGED beyond_manager

(***************************************************************************)
(* LLMManager.generate, resumed when provider.generate returns a response: *)
(* the latency is stamped, the cache updated, the response returned.       *)
(***************************************************************************)
ProviderReturns(call, latency) ==
    /\ Has(inflight, call)
    /\ LET c == Get(inflight, call)
           response == [ProviderResponse(c.provider, c.fields)
                           EXCEPT !.latency_ms = latency]
       IN
       /\ request_cache' = UpdateCache(request_cache, cache_size, c.key, response)
       /\ insert_log' = Append(insert_log, c.key)
       /\ last' = For(Event("complete", call, c.key, "response", response, None,
                            None, Evicted(request_cache, request_cache')),
                      c.fields)
    /\ inflight' = DelAt(inflight, Pos(inflight, call))
    /\ UNCHANGED <<providers, cache_size, stats, healthy, issued, inserts>>
    /\ UNCHANGED beyond_manager

\* a generate that stores the failure under the fingerprint before raising
ProviderRaisesCached(call) ==
    /\ Has(inflight, call)
    /\ LET c == Get(inflight, call)
       IN  /\ last' = For(Event("complete", call, c.key, "error", NoResponse,
                                "provider error", None, {}),
                          c.fields)
           /\ request_cache' = UpdateCache(request_cache, cache_size, c.key,
                                           NoResponse)
    /\ stats' = [stats EXCEPT !.errors = @ + 1]
    /\ inflight' = DelAt(inflight, Pos(inflight, call))
    /\ UNCHANGED <<providers, cache_size, healthy, issued, inserts, insert_log>>
    /\ UNCHANGED beyond_manager

(***************************************************************************)
(* LLMManager.generate, resumed when provider.generate raises.             *)
(***************************************************************************)
ProviderRaises(call) ==
    /\ Has(inflight, call)
    /\ LET c == Get(inflight, call)
       IN  last' = For(Event("complete", call, c.key, "error", NoResponse,
                             "provider error", None, {}),
                       c.fields)
    /\ stats' = [stats EXCEPT !.errors = @ + 1]
    /\ inflight' = DelAt(inflight, Pos(inflight, call))
    /\ UNCHANGED <<providers, request_cache, cache_size, healthy, issued, inserts,
                   insert_log>>
    /\ UNCHANGED beyond_manager

(***************************************************************************)
(* A direct call of _update_cache(_create_cache_key(request), response),   *)
(* as made by test_memory_profiling.                                       *)
(***************************************************************************)
InsertDirect(request, p, latency) ==
    /\ inserts' = inserts + 1
    /\ LET key == CreateCacheKey(request)
           response == [content |-> p \o ": " \o request.prompt, provider |-> p,
                        latency_ms |-> latency]
       IN
       /\ request_cache' = UpdateCache(request_cache, cache_size, key, response)
       /\ insert_log' = Append(insert_log, key)
       /\ last' = For(Event("insert", 0, key, "none", response, None, None,
                            Evicted(request_cache, request_cache')),
                      CacheFields(request))
    /\ UNCHANGED <<providers, cache_size, stats, healthy, inflight, issued>>
    /\ UNCHANGED beyond_manager

(***************************************************************************)
(* The dispatcher with its registry and its providers' health changing.    *)
(***************************************************************************)
\* the requests made of the dispatcher: two fingerprints, every preference list
\* and metadata
DispatchRequests == {r \in LLMRequest : r.max_tokens = 100}

Next ==
    \/ \E kind \in Kinds, p \in Providers : RegisterProvider(kind, p)
    \/ \E p \in Providers, h \in BOOLEAN : SetHealth(p, h)
    \/ \E request \in DispatchRequests : issued < MaxCalls /\ Generate(request)
    \/ \E call \in 1..MaxCalls, latency \in Latencies : ProviderReturns(call, latency)
    \/ \E call \in 1..MaxCalls : ProviderRaises(call)

Spec == Init /\ [][Next]_vars

(***************************************************************************)
(* The dispatcher in front of one registered, always healthy provider,     *)
(* with direct cache insertions.                                           *)
(***************************************************************************)
InitCache ==
    /\ Init
    /\ providers = <<>>
    /\ healthy = [p \in Providers |-> TRUE]

RegisterFirst ==
    /\ providers = <<>>
    /\ RegisterProvider("openai", "p1")

NextCache ==
    \/ RegisterFirst
    \/ \E request \in LLMRequest :
           /\ providers # <<>>
           /\ issued + inserts < MaxOps
           /\ Generate(request)
    \/ \E call \in 1..MaxOps, latency \in Latencies : ProviderReturns(call, latency)
    \/ \E call \in 1..MaxOps : ProviderRaises(call)
    \/ \E request \in LLMRequest, p \in Providers, latency \in Latencies :
           /\ issued + inserts < MaxOps
           /\ InsertDirect(request, p, latency)

SpecCache == InitCache /\ [][NextCache]_vars

(***************************************************************************)
(* RequestQueue (src/core/llm_manager.py).                                 *)
(*                                                                         *)
(* execute_with_retry(coro, provider_name) is given one coroutine object.  *)
(* Its first await runs the work; Python raises RuntimeError("cannot reuse *)
(* already awaited coroutine") at once when a finished coroutine is        *)
(* awaited again, which is what every later attempt does.                  *)
(***************************************************************************)
ReuseError == "RuntimeError: cannot reuse already awaited coroutine"
WorkError == "work error"

\* Semaphore.locked: no free slot, or somebody is waiting already
Locked(sem) == sem.value = 0 \/ sem.waiters # <<>>

\* Semaphore._wake_up_next: a slot is handed to the first waiter whose
\* future is not done
WakeUpNext(sem) ==
    LET pending == {i \in 1..Len(sem.waiters) : ~sem.waiters[i].done}
    IN  IF pending = {}
        THEN sem
        ELSE LET first == CHOOSE i \in pending : \A k \in pending : i <= k
             IN  [value |-> sem.value - 1,
                  waiters |-> [sem.waiters EXCEPT ![first].done = TRUE]]

\* Semaphore.release
Release(sem) == WakeUpNext([sem EXCEPT !.value = @ + 1])

\* the slots handed to waiters that have not resumed yet
Granted(sem) == Cardinality({i \in 1..Len(sem.waiters) : sem.waiters[i].done})

\* the slots no running attempt holds
FreeSlots(sem) == sem.value + Granted(sem)

\* the failed attempt's slot is kept: release only on the success path
SlotAfterAttemptOnSuccessOnly(sem, raised) == IF raised THEN sem ELSE Release(sem)

\* acquire_slot's finally: the slot is released however the body ended
SlotAfterAttempt(sem, raised) == Release(sem)

\* asyncio.sleep(2 ** attempt)
Backoff(attempt) == 2 ^ attempt

\* the except clause of execute_with_retry
AfterFailure(task, retries, error) ==
    IF task.attempt = retries - 1
    THEN [task EXCEPT !.pc = "raised", !.result = error]
    ELSE [task EXCEPT !.pc = "backoff", !.waits = Append(@, Backoff(task.attempt))]

\* a retry that keeps the slot of its failed attempt through the backoff
WithSlotKept(task, sem, retries) ==
    IF ~task.awaited
    THEN [task |-> [task EXCEPT !.pc = "running", !.awaited = TRUE, !.runs = @ + 1],
          sem |-> sem]
    ELSE [task |-> AfterFailure(task, retries, ReuseError), sem |-> sem]

\* The body of `async with self.acquire_slot()` once the slot is held, to
\* the next suspension: `await coro` suspends in the work the first time
\* and raises at once when the coroutine was awaited before.
WithSlot(task, sem, retries) ==
    IF ~task.awaited
    THEN [task |-> [task EXCEPT !.pc = "running", !.awaited = TRUE, !.runs = @ + 1],
          sem |-> sem]
    ELSE [task |-> AfterFailure(task, retries, ReuseError),
          sem |-> SlotAfterAttempt(sem, TRUE)]

\* One pass of the loop body from `async with self.acquire_slot()` to the
\* next suspension: [task, sem] after it.  Semaphore.acquire queues the
\* call behind the waiters when the semaphore is locked.
Attempt(t, task, sem, retries) ==
    IF Locked(sem)
    THEN [task |-> [task EXCEPT !.pc = "acquire"],
          sem |-> [sem EXCEPT !.waiters = Append(@, [task |-> t, done |-> FALSE])]]
    ELSE WithSlot(task, [sem EXCEPT !.value = @ - 1], retries)

StartAttempt(t, task) ==
    LET next == Attempt(t, task, semaphore, max_retries)
    IN  /\ retry' = [retry EXCEPT ![t] = next.task]
        /\ semaphore' = next.sem
        /\ UNCHANGED <<max_concurrent, max_retries, manager_vars, pool_vars,
                       batch_vars>>

\* execute_with_retry is called
ExecuteWithRetry(t) ==
    /\ retry[t].pc = "new"
    /\ \A u \in 1..(t - 1) : retry[u].pc # "new"
    /\ StartAttempt(t, retry[t])

\* Semaphore.acquire resumes in the waiter that was handed a slot: the
\* futures are set, and their waiters resumed, in the order of the queue
AcquireSlot(t) ==
    /\ retry[t].pc = "acquire"
    /\ semaphore.waiters # <<>>
    /\ Head(semaphore.waiters) = [task |-> t, done |-> TRUE]
    /\ LET left == [semaphore EXCEPT !.waiters = Tail(@)]
           woken == IF left.value > 0 THEN WakeUpNext(left) ELSE left
           next == WithSlot(retry[t], woken, max_retries)
       IN  /\ retry' = [retry EXCEPT ![t] = next.task]
           /\ semaphore' = next.sem
    /\ UNCHANGED <<max_concurrent, max_retries, manager_vars, pool_vars, batch_vars>>

\* the awaited work returns
WorkReturns(t) ==
    /\ retry[t].pc = "running"
    /\ semaphore' = SlotAfterAttempt(semaphore, FALSE)
    /\ retry' = [retry EXCEPT ![t] = [@ EXCEPT !.pc = "returned", !.result = "ok"]]
    /\ UNCHANGED <<max_concurrent, max_retries, manager_vars, pool_vars, batch_vars>>

\* the awaited work raises
WorkRaises(t) ==
    /\ retry[t].pc = "running"
    /\ semaphore' = SlotAfterAttempt(semaphore, TRUE)
    /\ retry' = [retry EXCEPT ![t] = AfterFailure(@, max_retries, WorkError)]
    /\ UNCHANGED <<max_concurrent, max_retries, manager_vars, pool_vars, batch_vars>>

\* asyncio.sleep returns: the next iteration of the loop
BackoffEnds(t) ==
    /\ retry[t].pc = "backoff"
    /\ StartAttempt(t, [retry[t] EXCEPT !.attempt = @ + 1])

\* the waiters without the call t
Without(waiters, t) == SelectSeq(waiters, LAMBDA w : w.task # t)

\* Semaphore.acquire's handling of CancelledError: a waiter whose future
\* was cancelled just leaves the queue, one that had been handed a slot
\* passes it on
CancelledWaiter(sem, t) ==
    LET left == [sem EXCEPT !.waiters = Without(@, t)]
    IN  IF \E i \in 1..Len(sem.waiters) : sem.waiters[i] = [task |-> t, done |-> TRUE]
        THEN Release(left)
        ELSE left

\* the task running execute_with_retry is cancelled: before it started, or
\* at its suspension point
Cancel(t) ==
    /\ retry[t].pc \in {"new", "acquire", "running", "backoff"}
    /\ retry[t].pc = "new" => \A u \in 1..(t - 1) : retry[u].pc # "new"
    /\ semaphore' = CASE retry[t].pc = "running" -> SlotAfterAttempt(semaphore, TRUE)
                      [] retry[t].pc = "acquire" -> CancelledWaiter(semaphore, t)
                      [] OTHER -> semaphore
    /\ retry' = [retry EXCEPT ![t] = [@ EXCEPT !.pc = "cancelled"]]
    /\ UNCHANGED <<max_concurrent, max_retries, manager_vars, pool_vars, batch_vars>>

NextQueue ==
    \/ \E t \in 1..MaxTasks : ExecuteWithRetry(t)
    \/ \E t \in 1..MaxTasks : AcquireSlot(t)
    \/ \E t \in 1..MaxTasks : WorkReturns(t)
    \/ \E t \in 1..MaxTasks : WorkRaises(t)
    \/ \E t \in 1..MaxTasks : BackoffEnds(t)
    \/ \E t \in 1..MaxTasks : Cancel(t)

\* a RequestQueue on its own: the dispatcher beside it is never called
InitQueueAlone == IdleManager /\ InitQueue /\ InitPool /\ NoBatcher

SpecQueue == InitQueueAlone /\ [][NextQueue]_vars

\* add_provider without the ceiling: the instance is always appended
PoolAddProviderUnbounded(pool, usage, size, kind, p) ==
    LET pool1 == IF Has(pool, kind) THEN pool ELSE Put(pool, kind, <<>>)
        usage1 == IF Has(pool, kind) THEN usage ELSE Put(usage, kind, 0)
    IN  [pools |-> Put(pool1, kind, Append(Get(pool1, kind), p)),
         usage |-> usage1]

(***************************************************************************)
(* ProviderPool.add_provider: [pools, usage] after the call.               *)
(***************************************************************************)
PoolAddProvider(pool, usage, size, kind, p) ==
    LET pool1 == IF Has(pool, kind) THEN pool ELSE Put(pool, kind, <<>>)
        usage1 == IF Has(pool, kind) THEN usage ELSE Put(usage, kind, 0)
    IN  [pools |-> IF Len(Get(pool1, kind)) < size
                   THEN Put(pool1, kind, Append(Get(pool1, kind), p))
                   ELSE pool1,
         usage |-> usage1]

\* get_provider that always returns the first instance of the pool
PoolGetProviderFirst(pool, usage, kind) ==
    IF ~Has(pool, kind) \/ Get(pool, kind) = <<>>
    THEN [provider |-> None, usage |-> usage]
    ELSE [provider |-> Get(pool, kind)[1],
          usage |-> Put(usage, kind, Get(usage, kind) + 1)]

(***************************************************************************)
(* ProviderPool.get_provider: [provider, usage] after the call; provider   *)
(* is None when the kind has no instance.                                  *)
(***************************************************************************)
PoolGetProvider(pool, usage, kind) ==
    IF ~Has(pool, kind) \/ Get(pool, kind) = <<>>
    THEN [provider |-> None, usage |-> usage]
    ELSE LET instances == Get(pool, kind)
             index == Get(usage, kind) % Len(instances)
         IN  [provider |-> instances[index + 1],
              usage |-> Put(usage, kind, Get(usage, kind) + 1)]

\* the get_provider calls that found an instance: the sum of the cursors
Gets == LET RECURSIVE Sum(_)
            Sum(i) == IF i > Len(pool_usage) THEN 0
                      ELSE pool_usage[i][2] + Sum(i + 1)
        IN  Sum(1)

\* the number of instances in all pools
Pooled == LET RECURSIVE Sum(_)
              Sum(i) == IF i > Len(pools) THEN 0 ELSE Len(pools[i][2]) + Sum(i + 1)
          IN  Sum(1)

(***************************************************************************)
(* A ProviderPool on its own.                                              *)
(***************************************************************************)
AddProvider(kind, p) ==
    /\ LET added == PoolAddProvider(pools, pool_usage, max_pool_size, kind, p)
       IN  /\ pools' = added.pools
           /\ pool_usage' = added.usage
    /\ last' = Event("add", 0, None, "none", NoResponse, None, None, {})
    /\ UNCHANGED <<dispatcher_vars, issued, queue_vars, max_pool_size, batch_vars>>

\* `invoked` reports the instance returned
GetProvider(kind) ==
    /\ LET got == PoolGetProvider(pools, pool_usage, kind)
       IN  /\ pool_usage' = got.usage
           /\ last' = Event("get", 0, None, "none", NoResponse, None,
                            got.provider, {})
    /\ UNCHANGED <<dispatcher_vars, issued, queue_vars, pools, max_pool_size,
                   batch_vars>>

InitPoolAlone ==
    /\ IdleManager
    /\ IdleQueue
    /\ NoBatcher
    /\ pools = <<>>
    /\ pool_usage = <<>>
    /\ max_pool_size \in 1..MaxPoolSize

NextPool ==
    \/ \E kind \in Kinds, p \in Providers : AddProvider(kind, p)
    \/ \E kind \in Kinds : Gets < MaxPoolGets /\ GetProvider(kind)

SpecPool == InitPoolAlone /\ [][NextPool]_vars

(***************************************************************************)
(* EnhancedLLMManager.register_provider                                    *)
(***************************************************************************)
EnhancedRegisterProvider(kind, p) ==
    /\ providers' = Put(providers, kind, p)
    /\ LET added == PoolAddProvider(pools, pool_usage, max_pool_size, kind, p)
       IN  /\ pools' = added.pools
           /\ pool_usage' = added.usage
    /\ last' = Event("register", 0, None, Probe(healthy, p), NoResponse, None,
                     None, {})
    /\ UNCHANGED <<request_cache, cache_size, stats, healthy, inflight, issued,
                   inserts, insert_log>>
    /\ UNCHANGED <<queue_vars, max_pool_size, batch_vars>>

(***************************************************************************)
(* RequestBatcher.  The owner of the lock, and of a flush, is an           *)
(* add_request call or a _timeout_handler task.                            *)
(***************************************************************************)
Caller(c) == <<"call", c>>
Timer(c) == <<"timer", c>>

\* acquire() that never waits
LockIgnored(lock) == TRUE

\* asyncio.Lock: acquire() takes a free lock at once unless others wait for it
LockFree(lock) == lock.holder = NoOwner /\ lock.waiters = <<>>
\* acquire() returns to the longest waiting owner after a release()
LockGranted(lock, owner) ==
    lock.holder = NoOwner /\ lock.waiters # <<>> /\ Head(lock.waiters) = owner

\* every task drawn from the head of the queue: all run the first item
CreateTasksForHead(queue, owner) ==
    [c \in DOMAIN tasks |->
        IF \E i \in 1..Len(queue) : queue[i].call = c
        THEN [pc |-> "created", owner |-> owner, provider |-> queue[1].provider,
              fields |-> queue[1].fields]
        ELSE tasks[c]]

\* RequestBatcher._process_batch up to `await asyncio.gather`: the queue is
\* drained and one _execute_request task is created for each of its items
CreateTasks(queue, owner) ==
    [c \in DOMAIN tasks |->
        IF \E i \in 1..Len(queue) : queue[i].call = c
        THEN LET item == queue[CHOOSE i \in 1..Len(queue) : queue[i].call = c]
             IN  [pc |-> "created", owner |-> owner, provider |-> item.provider,
                  fields |-> item.fields]
        ELSE tasks[c]]

\* the tasks a flush waits for in asyncio.gather
WaveOf(owner) == {c \in DOMAIN tasks : tasks[c].pc # "none" /\ tasks[c].owner = owner}

\* add_request that starts a timer for every item that does not fill the batch
EnqueueRearming(c, item, waiters) ==
    LET queue == Append(pending_requests, item)
    IN  /\ futures' = [futures EXCEPT ![c] = [state |-> "pending",
                                              response |-> NoResponse,
                                              wave |-> NoOwner]]
        /\ IF Len(queue) >= batch_size
           THEN /\ pending_requests' = <<>>
                /\ tasks' = CreateTasks(queue, Caller(c))
                /\ batch_lock' = [holder |-> Caller(c), waiters |-> waiters]
                /\ callers' = [callers EXCEPT ![c] = [pc |-> "flush", item |-> item]]
                /\ UNCHANGED timers
           ELSE /\ pending_requests' = queue
                /\ timers' = [timers EXCEPT ![c] = "sleeping"]
                /\ batch_lock' = [holder |-> NoOwner, waiters |-> waiters]
                /\ callers' = [callers EXCEPT ![c] = [pc |-> "future", item |-> item]]
                /\ UNCHANGED tasks

\* add_request that flushes only once the queue is longer than batch_size
EnqueueLate(c, item, waiters) ==
    LET queue == Append(pending_requests, item)
    IN  /\ futures' = [futures EXCEPT ![c] = [state |-> "pending",
                                              response |-> NoResponse,
                                              wave |-> NoOwner]]
        /\ IF Len(queue) > batch_size
           THEN /\ pending_requests' = <<>>
                /\ tasks' = CreateTasks(queue, Caller(c))
                /\ batch_lock' = [holder |-> Caller(c), waiters |-> waiters]
                /\ callers' = [callers EXCEPT ![c] = [pc |-> "flush", item |-> item]]
                /\ UNCHANGED timers
           ELSE /\ pending_requests' = queue
                /\ timers' = IF Len(queue) = 1
                             THEN [timers EXCEPT ![c] = "sleeping"]
                             ELSE timers
                /\ batch_lock' = [holder |-> NoOwner, waiters |-> waiters]
                /\ callers' = [callers EXCEPT ![c] = [pc |-> "future", item |-> item]]
                /\ UNCHANGED tasks

\* add_request with the lock held by call c: from the append to the next
\* suspension.  `waiters` are the owners still waiting for the lock.
Enqueue(c, item, waiters) ==
    LET queue == Append(pending_requests, item)
    IN  /\ futures' = [futures EXCEPT ![c] = [state |-> "pending",
                                              response |-> NoResponse,
                                              wave |-> NoOwner]]
        /\ IF Len(queue) >= batch_size
           THEN \* await self._process_batch()
                /\ pending_requests' = <<>>
                /\ tasks' = CreateTasks(queue, Caller(c))
                /\ batch_lock' = [holder |-> Caller(c), waiters |-> waiters]
                /\ callers' = [callers EXCEPT ![c] = [pc |-> "flush", item |-> item]]
                /\ UNCHANGED timers
           ELSE \* the lock is released and the future awaited
                /\ pending_requests' = queue
                /\ timers' = IF Len(queue) = 1
                             THEN [timers EXCEPT ![c] = "sleeping"]
                             ELSE timers
                /\ batch_lock' = [holder |-> NoOwner, waiters |-> waiters]
                /\ callers' = [callers EXCEPT ![c] = [pc |-> "future", item |-> item]]
                /\ UNCHANGED tasks

(***************************************************************************)
(* EnhancedLLMManager.generate with batching disabled: LLMManager.generate *)
(***************************************************************************)
GenerateUnbatched(request) ==
    /\ ~enable_batching
    /\ Generate(request)

(***************************************************************************)
(* EnhancedLLMManager.generate with batching enabled, and the add_request  *)
(* it calls, up to the first suspension.                                   *)
(***************************************************************************)
GenerateBatched(request) ==
    /\ enable_batching
    /\ LET call == issued + 1
           sel == SelectOptimalProvider(providers, healthy, request)
           item == [call |-> call, provider |-> sel.provider,
                    fields |-> CacheFields(request)]
       IN
       /\ issued' = call
       /\ IF sel.provider = None
          THEN /\ last' = Selected(For(Event("generate", call, None, "error",
                                             NoResponse,
                                             "No healthy providers available",
                                             None, {}),
                                       CacheFields(request)),
                                   request)
               /\ UNCHANGED <<pending_requests, batch_lock, callers, futures,
                              timers, tasks>>
          ELSE /\ last' = Selected(For(Event("generate", call, None, "pending",
                                             NoResponse, None, None, {}),
                                       CacheFields(request)),
                                   request)
               /\ IF LockFree(batch_lock)
                  THEN Enqueue(call, item, <<>>)
                  ELSE /\ batch_lock' = [batch_lock EXCEPT
                                            !.waiters = Append(@, Caller(call))]
                       /\ callers' = [callers EXCEPT ![call] =
                                         [pc |-> "lock", item |-> item]]
                       /\ UNCHANGED <<pending_requests, futures, timers, tasks>>
    /\ UNCHANGED <<dispatcher_vars, queue_vars, pool_vars, enable_batching,
                   batch_size>>

\* what a step of the batcher reports
BatcherEvent(op, call, fields, outcome, response, error, invoked) ==
    For(Event(op, call, None, outcome, response, error, invoked, {}), fields)

\* add_request: the lock is acquired after a wait
CallerLocks(c) ==
    /\ callers[c].pc = "lock"
    /\ LockGranted(batch_lock, Caller(c))
    /\ Enqueue(c, callers[c].item, Tail(batch_lock.waiters))
    /\ last' = BatcherEvent("lock", 0, <<>>, "none", NoResponse, None, None)
    /\ UNCHANGED <<dispatcher_vars, issued, queue_vars, pool_vars, enable_batching,
                   batch_size>>

\* the timer wakes up, finds the queue and leaves without flushing it
TimerLeaves(t, waiters) ==
    /\ batch_lock' = [holder |-> NoOwner, waiters |-> waiters]
    /\ timers' = [timers EXCEPT ![t] = "none"]
    /\ UNCHANGED <<pending_requests, tasks>>

\* _timeout_handler with the lock held: the queue is flushed if it has items
TimerHolds(t, waiters) ==
    IF pending_requests # <<>>
    THEN /\ pending_requests' = <<>>
         /\ tasks' = CreateTasks(pending_requests, Timer(t))
         /\ batch_lock' = [holder |-> Timer(t), waiters |-> waiters]
         /\ timers' = [timers EXCEPT ![t] = "flush"]
    ELSE /\ batch_lock' = [holder |-> NoOwner, waiters |-> waiters]
         /\ timers' = [timers EXCEPT ![t] = "none"]
         /\ UNCHANGED <<pending_requests, tasks>>

\* _timeout_handler: asyncio.sleep(batch_timeout) returns
TimeoutElapses(t) ==
    /\ timers[t] = "sleeping"
    /\ IF LockFree(batch_lock)
       THEN TimerHolds(t, <<>>)
       ELSE /\ batch_lock' = [batch_lock EXCEPT !.waiters = Append(@, Timer(t))]
            /\ timers' = [timers EXCEPT ![t] = "lock"]
            /\ UNCHANGED <<pending_requests, tasks>>
    /\ last' = BatcherEvent("timeout", 0, <<>>, "none", NoResponse, None, None)
    /\ UNCHANGED <<callers, futures>>
    /\ UNCHANGED <<dispatcher_vars, issued, queue_vars, pool_vars, enable_batching,
                   batch_size>>

\* _timeout_handler: the lock is acquired after a wait
TimerLocks(t) ==
    /\ timers[t] = "lock"
    /\ LockGranted(batch_lock, Timer(t))
    /\ TimerHolds(t, Tail(batch_lock.waiters))
    /\ last' = BatcherEvent("timeout", 0, <<>>, "none", NoResponse, None, None)
    /\ UNCHANGED <<callers, futures>>
    /\ UNCHANGED <<dispatcher_vars, issued, queue_vars, pool_vars, enable_batching,
                   batch_size>>

\* _execute_request starts: provider.generate(request) is called
ExecuteRequest(c) ==
    /\ tasks[c].pc = "created"
    /\ tasks' = [tasks EXCEPT ![c].pc = "running"]
    /\ last' = BatcherEvent("dispatch", c, tasks[c].fields, "none", NoResponse,
                            None, tasks[c].provider)
    /\ UNCHANGED <<pending_requests, batch_lock, callers, futures, timers>>
    /\ UNCHANGED <<dispatcher_vars, issued, queue_vars, pool_vars, enable_batching,
                   batch_size>>

\* _execute_request: provider.generate returns, future.set_result(response)
ExecuteReturns(c) ==
    /\ tasks[c].pc = "running"
    /\ futures' = [futures EXCEPT ![c] =
                      [state |-> "result",
                       response |-> ProviderResponse(tasks[c].provider,
                                                     tasks[c].fields),
                       wave |-> tasks[c].owner]]
    /\ tasks' = [tasks EXCEPT ![c] = Absent]
    /\ last' = BatcherEvent("settle", 0, <<>>, "none", NoResponse, None, None)
    /\ UNCHANGED <<pending_requests, batch_lock, callers, timers>>
    /\ UNCHANGED <<dispatcher_vars, issued, queue_vars, pool_vars, enable_batching,
                   batch_size>>

\* a failure that is set on every pending future, not only on its own
ExecuteRaisesForAll(c) ==
    /\ tasks[c].pc = "running"
    /\ futures' = [d \in DOMAIN futures |->
                      IF d = c \/ futures[d].state = "pending"
                      THEN [state |-> "exception", response |-> NoResponse,
                            wave |-> tasks[c].owner]
                      ELSE futures[d]]
    /\ tasks' = [tasks EXCEPT ![c] = Absent]
    /\ last' = BatcherEvent("settle", 0, <<>>, "none", NoResponse, None, None)
    /\ UNCHANGED <<pending_requests, batch_lock, callers, timers>>
    /\ UNCHANGED <<dispatcher_vars, issued, queue_vars, pool_vars, enable_batching,
                   batch_size>>

\* _execute_request: provider.generate raises, future.set_exception(e)
ExecuteRaises(c) ==
    /\ tasks[c].pc = "running"
    /\ futures' = [futures EXCEPT ![c] = [state |-> "exception",
                                          response |-> NoResponse,
                                          wave |-> tasks[c].owner]]
    /\ tasks' = [tasks EXCEPT ![c] = Absent]
    /\ last' = BatcherEvent("settle", 0, <<>>, "none", NoResponse, None, None)
    /\ UNCHANGED <<pending_requests, batch_lock, callers, timers>>
    /\ UNCHANGED <<dispatcher_vars, issued, queue_vars, pool_vars, enable_batching,
                   batch_size>>

\* `return await future` once the future is done: what generate's caller gets
Outcome(c, fields) ==
    IF futures[c].state = "result"
    THEN BatcherEvent("complete", c, fields, "response", futures[c].response,
                      None, None)
    ELSE BatcherEvent("complete", c, fields, "error", NoResponse,
                      "provider error", None)

\* a flush that returns, releasing the lock, as soon as the caller's own
\* future is done
CallerFlushedEarly(c) ==
    /\ callers[c].pc = "flush"
    /\ futures[c].state # "pending"
    /\ batch_lock' = [batch_lock EXCEPT !.holder = NoOwner]
    /\ callers' = [callers EXCEPT ![c] = Absent]
    /\ futures' = [futures EXCEPT ![c] = NoFuture]
    /\ last' = Outcome(c, callers[c].item.fields)
    /\ UNCHANGED <<pending_requests, timers, tasks>>
    /\ UNCHANGED <<dispatcher_vars, issued, queue_vars, pool_vars, enable_batching,
                   batch_size>>

\* add_request: asyncio.gather returns to the call that flushed; the lock is
\* released and the call's own future, which is done, is returned
CallerFlushed(c) ==
    /\ callers[c].pc = "flush"
    /\ WaveOf(Caller(c)) = {}
    /\ batch_lock' = [batch_lock EXCEPT !.holder = NoOwner]
    /\ IF futures[c].state = "pending"
       THEN /\ callers' = [callers EXCEPT ![c].pc = "future"]
            /\ last' = BatcherEvent("lock", 0, <<>>, "none", NoResponse, None, None)
            /\ UNCHANGED futures
       ELSE /\ callers' = [callers EXCEPT ![c] = Absent]
            /\ futures' = [futures EXCEPT ![c] = NoFuture]
            /\ last' = Outcome(c, callers[c].item.fields)
    /\ UNCHANGED <<pending_requests, timers, tasks>>
    /\ UNCHANGED <<dispatcher_vars, issued, queue_vars, pool_vars, enable_batching,
                   batch_size>>

\* The event loop runs its ready callbacks first in, first out: the first
\* steps of the tasks a flush created are queued before the wake-up of any
\* caller whose future one of them settles.
WaveStarted(owner) ==
    \A d \in DOMAIN tasks :
        tasks[d].pc = "created" => tasks[d].owner # owner

\* add_request: the awaited future is done
FutureReturns(c) ==
    /\ callers[c].pc = "future"
    /\ futures[c].state \in {"result", "exception"}
    /\ WaveStarted(futures[c].wave)
    /\ callers' = [callers EXCEPT ![c] = Absent]
    /\ futures' = [futures EXCEPT ![c] = NoFuture]
    /\ last' = Outcome(c, callers[c].item.fields)
    /\ UNCHANGED <<pending_requests, batch_lock, timers, tasks>>
    /\ UNCHANGED <<dispatcher_vars, issued, queue_vars, pool_vars, enable_batching,
                   batch_size>>

\* _timeout_handler: asyncio.gather returns; the lock is released
TimerFlushed(t) ==
    /\ timers[t] = "flush"
    /\ WaveOf(Timer(t)) = {}
    /\ batch_lock' = [batch_lock EXCEPT !.holder = NoOwner]
    /\ timers' = [timers EXCEPT ![t] = "none"]
    /\ last' = BatcherEvent("timeout", 0, <<>>, "none", NoResponse, None, None)
    /\ UNCHANGED <<pending_requests, callers, futures, tasks>>
    /\ UNCHANGED <<dispatcher_vars, issued, queue_vars, pool_vars, enable_batching,
                   batch_size>>

(***************************************************************************)
(* EnhancedLLMManager, with and without batching.                          *)
(***************************************************************************)
InitEnhanced ==
    /\ InitManager
    /\ healthy = [p \in Providers |-> TRUE]
    /\ IdleQueue
    /\ InitPool
    /\ enable_batching \in BOOLEAN
    \* without batching there is no RequestBatcher; with it, no use of the cache
    /\ batch_size \in IF enable_batching
                     THEN 1..MaxBatchSize \cup {DefaultBatchSize} ELSE {1}
    /\ cache_size \in IF enable_batching THEN {1} ELSE 1..MaxCacheSize
    /\ InitBatcher(MaxBatchCalls)

\* the requests made of the enhanced manager: two fingerprints
BatchRequests ==
    {r \in LLMRequest : /\ r.max_tokens = 100
                        /\ r.metadata = None
                        /\ r.provider_preferences \in {<<>>, <<"anthropic">>}}

NextEnhanced ==
    \/ \E kind \in Kinds, p \in Providers :
           /\ issued = 0
           /\ Pooled < MaxRegistrations
           /\ EnhancedRegisterProvider(kind, p)
    \/ \E request \in BatchRequests :
           issued < MaxCalls /\ GenerateUnbatched(request)
    \/ \E call \in 1..MaxBatchCalls, latency \in Latencies :
           ProviderReturns(call, latency)
    \/ \E call \in 1..MaxBatchCalls : ProviderRaises(call)
    \/ \E request \in BatchRequests :
           issued < MaxBatchCalls /\ GenerateBatched(request)
    \/ \E c \in 1..MaxBatchCalls : CallerLocks(c)
    \/ \E t \in 1..MaxBatchCalls : TimeoutElapses(t)
    \/ \E t \in 1..MaxBatchCalls : TimerLocks(t)
    \/ \E c \in 1..MaxBatchCalls : ExecuteRequest(c)
    \/ \E c \in 1..MaxBatchCalls : ExecuteReturns(c)
    \/ \E c \in 1..MaxBatchCalls : ExecuteRaises(c)
    \/ \E c \in 1..MaxBatchCalls : CallerFlushed(c)
    \/ \E c \in 1..MaxBatchCalls : FutureReturns(c)
    \/ \E t \in 1..MaxBatchCalls : TimerFlushed(t)

SpecEnhanced == InitEnhanced /\ [][NextEnhanced]_vars

(***************************************************************************)
(* RequestBatcher behind an EnhancedLLMManager with one provider, under    *)
(* fair scheduling: the event loop runs every callback that is ready, a    *)
(* sleep ends, and every provider call returns or raises.                  *)
(***************************************************************************)
InitBatching ==
    /\ InitEnhanced
    /\ enable_batching

RegisterFirstPooled ==
    /\ providers = <<>>
    /\ EnhancedRegisterProvider("openai", "p1")

NextBatching ==
    \/ RegisterFirstPooled
    \/ \E request \in BatchRequests :
           /\ providers # <<>>
           /\ issued < MaxBatchCalls
           /\ GenerateBatched(request)
    \/ \E c \in 1..MaxBatchCalls : CallerLocks(c)
    \/ \E t \in 1..MaxBatchCalls : TimeoutElapses(t)
    \/ \E t \in 1..MaxBatchCalls : TimerLocks(t)
    \/ \E c \in 1..MaxBatchCalls : ExecuteRequest(c)
    \/ \E c \in 1..MaxBatchCalls : ExecuteReturns(c)
    \/ \E c \in 1..MaxBatchCalls : ExecuteRaises(c)
    \/ \E c \in 1..MaxBatchCalls : CallerFlushed(c)
    \/ \E c \in 1..MaxBatchCalls : FutureReturns(c)
    \/ \E t \in 1..MaxBatchCalls : TimerFlushed(t)

SpecBatching == InitBatching /\ [][NextBatching]_vars

FairBatching ==
    \A c \in 1..MaxBatchCalls :
        /\ WF_vars(CallerLocks(c))
        /\ WF_vars(TimeoutElapses(c))
        /\ WF_vars(TimerLocks(c))
        /\ WF_vars(ExecuteRequest(c))
        /\ WF_vars(ExecuteReturns(c) \/ ExecuteRaises(c))
        /\ WF_vars(CallerFlushed(c))
        /\ WF_vars(FutureReturns(c))
        /\ WF_vars(TimerFlushed(c))

SpecBatchingFair == SpecBatching /\ FairBatching

(***************************************************************************)
(* A batching manager that takes enough calls for one batch to follow      *)
(* another: the timers of earlier batches are still around.                *)
(***************************************************************************)
InitTimers ==
    /\ InitManager
    /\ healthy = [p \in Providers |-> TRUE]
    /\ IdleQueue
    /\ InitPool
    /\ enable_batching = TRUE
    /\ batch_size \in 1..MaxTimerBatch \cup {DefaultBatchSize}
    /\ cache_size = 1
    /\ InitBatcher(MaxTimerCalls)

\* the requests made: one fingerprint
TimerRequests == {r \in BatchRequests : r.prompt = "a" /\ r.provider_preferences = <<>>}

NextTimers ==
    \/ RegisterFirstPooled
    \/ \E request \in TimerRequests :
           /\ providers # <<>>
           /\ issued < MaxTimerCalls
           /\ GenerateBatched(request)
    \/ \E c \in 1..MaxTimerCalls : CallerLocks(c)
    \/ \E t \in 1..MaxTimerCalls : TimeoutElapses(t)
    \/ \E t \in 1..MaxTimerCalls : TimerLocks(t)
    \/ \E c \in 1..MaxTimerCalls : ExecuteRequest(c)
    \/ \E c \in 1..MaxTimerCalls : ExecuteReturns(c)
    \/ \E c \in 1..MaxTimerCalls : ExecuteRaises(c)
    \/ \E c \in 1..MaxTimerCalls : CallerFlushed(c)
    \/ \E c \in 1..MaxTimerCalls : FutureReturns(c)
    \/ \E t \in 1..MaxTimerCalls : TimerFlushed(t)

SpecTimers == InitTimers /\ [][NextTimers]_vars

(***************************************************************************)
(* Properties.                                                             *)
(***************************************************************************)
Range(seq) == {seq[i] : i \in 1..Len(seq)}
Distinct(seq) == \A i, j \in 1..Len(seq) : i # j => seq[i] # seq[j]
CacheKeys == [i \in 1..Len(request_cache) |-> request_cache[i][1]]
LastN(seq, n) == SubSeq(seq, Len(seq) - n + 1, Len(seq))
Min(S) == CHOOSE x \in S : \A y \in S : x <= y

\* this step is a generate call being made
GenerateStep == issued' = issued + 1
\* this step returns a response to, or raises into, the caller of generate
ReturnStep == GenerateStep \/ inflight' # inflight

\* C1: the cache never holds more than cache_size entries, whatever generate
\* calls and direct insertions were made.
C1_CacheBounded == Len(request_cache) <= cache_size

C1_Witness ==
    /\ Len(request_cache) = cache_size
    /\ Len(insert_log) > cache_size
    /\ inserts > 0
    /\ issued > 0
    /\ last.evicted # {}

\* C2: a generate call made right after a call with the same fingerprint
\* returned a response returns that same response, invokes no provider and
\* adds exactly one to cache_hits.
C2_RepeatServedFromCache ==
    [][(/\ last.op \in {"generate", "complete"}
        /\ last.outcome = "response"
        /\ GenerateStep
        /\ last'.fields = last.fields)
       => (/\ last'.outcome = "response"
           /\ last'.response = last.response
           /\ last'.invoked = None
           /\ stats'.cache_hits = stats.cache_hits + 1)]_vars

C2_Witness ==
    /\ last.op = "generate"
    /\ last.outcome = "response"
    /\ last.call = 2
    /\ stats.cache_hits = 1
    /\ \A p \in Providers : ~healthy[p]

\* C3: once N generate calls over k <= cache_size distinct fingerprints have
\* all completed against an always healthy, never failing provider,
\* requests_total = N and cache_hits = N - k.
C3_OneProviderCallPerFingerprint ==
    (/\ inflight = <<>>
     /\ inserts = 0
     /\ stats.errors = 0
     /\ issued >= 1
     /\ Cardinality(Range(insert_log)) <= cache_size)
    => (/\ stats.requests_total = issued
        /\ stats.cache_hits = issued - Cardinality(Range(insert_log)))

\* C4: after N >= cache_size insertions of pairwise distinct fingerprints the
\* cache holds the cache_size most recently inserted ones, and an insertion
\* into the full cache evicted exactly the oldest resident one.
C4_OldestInsertedEvictedFirst ==
    (Distinct(insert_log) /\ Len(insert_log) >= cache_size)
    => (/\ CacheKeys = LastN(insert_log, cache_size)
        /\ (Len(insert_log) > cache_size /\ last.op \in {"insert", "complete"}
            /\ last.outcome # "error")
           => last.evicted = {insert_log[Len(insert_log) - cache_size]})

C4_Witness ==
    /\ Distinct(insert_log)
    /\ cache_size = 2
    /\ Len(insert_log) = 3
    /\ last.op = "insert"
    /\ last.evicted = {insert_log[1]}

\* C5: selection returns the first registered and healthy provider in
\* preference order, else the first healthy one in registry order; the
\* provider generate invokes was healthy when selected.
HealthyPrefs(prefs) ==
    {i \in 1..Len(prefs) : Has(providers, prefs[i]) /\ healthy[Get(providers, prefs[i])]}
HealthyRegistered == {i \in 1..Len(providers) : healthy[providers[i][2]]}
ExpectedProvider(prefs) ==
    IF HealthyPrefs(prefs) # {} THEN Get(providers, prefs[Min(HealthyPrefs(prefs))])
    ELSE IF HealthyRegistered # {} THEN providers[Min(HealthyRegistered)][2]
    ELSE None

C5_SelectionFollowsPreferencesAndHealth ==
    (last.op = "generate" /\ last.outcome \in {"pending", "error"})
    => (/\ last.invoked = ExpectedProvider(last.prefs)
        /\ last.invoked # None => healthy[last.invoked])

C5_Witness ==
    /\ last.op = "generate"
    /\ last.outcome = "pending"
    /\ Len(providers) = 2
    /\ last.prefs = <<providers[1][1], providers[2][1]>>
    /\ ~healthy[providers[1][2]]
    /\ last.invoked = providers[2][2]

\* C6: with no registered provider healthy, a generate call that misses the
\* cache raises "No healthy providers available", invokes no provider and
\* leaves the cache as it was.
C6_NoHealthyProviderFails ==
    [][(/\ GenerateStep
        /\ HealthyRegistered = {}
        /\ ~Has(request_cache, last'.key))
       => (/\ last'.outcome = "error"
           /\ last'.error = "No healthy providers available"
           /\ last'.invoked = None
           /\ inflight' = inflight
           /\ request_cache' = request_cache)]_vars

C6_Witness ==
    /\ last.op = "generate"
    /\ last.error = "No healthy providers available"
    /\ providers # <<>>
    /\ request_cache # <<>>

\* C7: errors grows by one in every step in which generate raises to its
\* caller, and in no step in which it returns a response.
C7_ErrorsCountFailures ==
    [][ReturnStep =>
        stats'.errors = stats.errors + (IF last'.outcome = "error" THEN 1 ELSE 0)]_vars

\* C10: the calls in flight never exceed max_concurrent and every slot taken is
\* given back when its attempt ends: free slots + attempts in flight =
\* max_concurrent in every state.
InFlight == {t \in 1..MaxTasks : retry[t].pc = "running"}

C10_SlotsBoundInFlightCalls ==
    /\ semaphore.value >= 0
    /\ Cardinality(InFlight) <= max_concurrent
    /\ FreeSlots(semaphore) + Cardinality(InFlight) = max_concurrent

C10_Witness ==
    /\ semaphore.value = 0
    /\ Cardinality(InFlight) = max_concurrent
    /\ \E t \in 1..MaxTasks : retry[t].pc = "acquire"
    /\ \E t \in 1..MaxTasks : retry[t].pc = "backoff" /\ retry[t].runs = 1

\* the cache key of the request a step was made for
KeyOf(fields) ==
    CreateCacheKey([prompt |-> fields[1], max_tokens |-> fields[2],
                    temperature |-> fields[3]])

\* C8: every generate call, with batching enabled or disabled, adds exactly
\* one to requests_total, so requests_total is the number of calls made.
C8_RequestsTotalCountsCalls == stats.requests_total = issued

\* C9: with batching enabled generate still does the cache steps: a call
\* whose fingerprint is in the cache is answered from it with no provider
\* invoked, and a response returned by a batched call is in the cache.
C9_BatchingKeepsCacheSteps ==
    [][enable_batching =>
        /\ (GenerateStep /\ Has(request_cache, KeyOf(last'.fields)))
           => (/\ last'.outcome = "response"
               /\ last'.invoked = None
               /\ stats'.cache_hits = stats.cache_hits + 1)
        /\ (last'.op = "complete" /\ last'.outcome = "response")
           => Has(request_cache', KeyOf(last'.fields))]_vars

\* the waits of a call that failed n times without giving up: 1, 2, 4, ...
Backoffs(n) == [i \in 1..n |-> 2 ^ (i - 1)]

\* C11: with max_retries = 3, a call whose work failed twice makes a third
\* attempt that runs the work again, after waits of 1 then 2 units; it
\* returns the work's result when that third run succeeds, so it can fail
\* only with the failure of the work's third run.
C11_ThirdAttemptRunsTheWork ==
    \A t \in 1..MaxTasks :
        (/\ max_retries = 3
         /\ retry[t].attempt = 2
         /\ retry[t].pc \in {"running", "returned", "raised"})
        => (/\ retry[t].runs = 3
            /\ retry[t].waits = <<1, 2>>
            /\ retry[t].pc = "returned" => retry[t].result = "ok"
            /\ retry[t].pc = "raised" => retry[t].result = WorkError)

\* C12: a call that gives up has run the work max_retries times, waited
\* 2^attempt units after every failed attempt but the last, and raises the
\* failure of the work's last run.
C12_ExhaustedAfterMaxRetriesRuns ==
    \A t \in 1..MaxTasks :
        retry[t].pc = "raised"
        => (/\ retry[t].runs = max_retries
            /\ retry[t].attempt = max_retries - 1
            /\ retry[t].waits = Backoffs(max_retries - 1)
            /\ retry[t].result = WorkError)

\* C13: generate retries a failing provider: a call gives up, and errors
\* grows, only once provider.generate has failed max_retries times for it;
\* after fewer failures the call is still on its way to a response.
C13_ErrorsOnlyAfterRetriesExhausted ==
    [][\A call \in 1..MaxCalls :
          (/\ Has(inflight, call)
           /\ ~Has(inflight', call)
           /\ Get(inflight, call).attempts < max_retries)
          => (/\ last'.outcome = "response"
              /\ stats'.errors = stats.errors)]_vars

\* provider.generate calls awaited at this moment, by generate itself or by
\* the batcher's _execute_request tasks
ProviderCallsInFlight ==
    Len(inflight) + Cardinality({c \in DOMAIN tasks : tasks[c].pc = "running"})

\* C14: the provider calls in flight, made directly or through the batcher,
\* never exceed the concurrency ceiling max_concurrent.
C14_ProviderCallsWithinCeiling == ProviderCallsInFlight <= max_concurrent

\* C15: the add_request call that makes the queue batch_size long flushes
\* all batch_size requests as one wave; a caller gets its result only after
\* the provider call of every request of its wave has started, and the
\* response it gets is the one made for its own request.
C15_FullBatchIsOneWave ==
    [][\A c \in DOMAIN callers :
          /\ (callers[c].pc # "flush" /\ callers'[c].pc = "flush")
             => (/\ pending_requests' = <<>>
                 /\ Cardinality({d \in DOMAIN tasks :
                                   /\ tasks'[d].pc = "created"
                                   /\ tasks'[d].owner = Caller(c)}) = batch_size)
          /\ (callers[c].pc \in {"flush", "future"} /\ callers'[c] = Absent)
             => (/\ WaveStarted(futures[c].wave)
                 /\ last'.call = c
                 /\ last'.outcome = "response"
                    => last'.response = ProviderResponse(callers[c].item.provider,
                                                         callers[c].item.fields))]_vars

C15_Witness ==
    /\ batch_size = 2
    /\ timers[1] = "sleeping"
    /\ last.op = "complete"
    /\ last.call = 1
    /\ last.outcome = "response"
    /\ callers[2].pc = "flush"
    /\ futures[2].state = "result"
    /\ futures[2].response # last.response

\* the timers that have yet to take the lock and look at the queue
TimersOutstanding == {t \in DOMAIN timers : timers[t] \in {"sleeping", "lock"}}

\* C16: while the queue is not empty a timer armed for it is outstanding,
\* and under fair scheduling, with provider calls that end, every
\* add_request call in progress eventually gets its result, full batch or
\* not.
C16_EveryRequestGetsAResult ==
    /\ [](pending_requests # <<>> => pending_requests[1].call \in TimersOutstanding)
    /\ \A c \in 1..MaxBatchCalls :
           (callers[c].pc \in {"lock", "flush", "future"}) ~> (callers[c] = Absent)

C16_Witness ==
    /\ batch_size = 2
    /\ issued = 1
    /\ last.op = "complete"
    /\ last.call = 1
    /\ last.outcome = "response"
    /\ callers[1] = Absent

\* C17: a caller's future is settled by its own provider call only, with
\* the response made for its own request or with its own failure; once
\* settled it is left alone by the other items of the wave, and it is handed
\* to the caller, who returns once.
C17_OwnOutcomeOnly ==
    [][\A c \in DOMAIN callers :
          /\ (futures[c].state = "pending" /\ futures'[c].state # "pending")
             => (/\ tasks[c].pc = "running"
                 /\ tasks'[c] = Absent
                 /\ futures'[c].state = "result"
                    => futures'[c].response =
                          ProviderResponse(callers[c].item.provider,
                                           callers[c].item.fields))
          /\ (futures[c].state \in {"result", "exception"})
             => \/ futures'[c] = futures[c]
                \/ /\ callers'[c] = Absent
                   /\ last'.op = "complete"
                   /\ last'.call = c
                   /\ last'.outcome =
                         (IF futures[c].state = "result" THEN "response" ELSE "error")
                   /\ last'.response = futures[c].response
          /\ (callers[c] = Absent /\ c <= issued) => callers'[c] = Absent]_vars

C17_Witness ==
    /\ batch_size = 2
    /\ timers[1] = "sleeping"
    /\ futures[1].state = "exception"
    /\ callers[1].pc = "future"
    /\ callers[2] = Absent
    /\ last.op = "complete"
    /\ last.call = 2
    /\ last.outcome = "response"

\* the owners flushing the queue: between the drain and the end of gather
Flushing ==
    {Caller(c) : c \in {d \in DOMAIN callers : callers[d].pc = "flush"}}
        \cup {Timer(t) : t \in {d \in DOMAIN timers : timers[d] = "flush"}}

\* C18: the queue changes only in a step that takes the free lock, at most
\* one flush is in progress, and it is the lock holder's.
C18_QueueChangesUnderLock ==
    [][/\ pending_requests' # pending_requests => batch_lock.holder = NoOwner
       /\ Cardinality(Flushing') <= 1
       /\ \A owner \in Flushing' : batch_lock'.holder = owner
       /\ \A d \in DOMAIN tasks :
              tasks'[d].pc # "none" => tasks'[d].owner = batch_lock'.holder]_vars

C18_Witness ==
    /\ \E t \in DOMAIN timers : timers[t] = "flush"
    /\ \E c \in DOMAIN callers : callers[c].pc = "lock"
    /\ batch_lock.waiters # <<>>

\* C19: a register_provider call makes the provider the one instance stored
\* for its kind, leaves the other kinds as they were, and probes the
\* provider's health; the provider is stored whatever the probe returned.
C19_RegisterStoresWhateverTheProbe ==
    [][last'.op = "register" =>
        \E kind \in Kinds, p \in Providers :
            /\ last'.outcome = Probe(healthy, p)
            /\ Has(providers', kind)
            /\ Get(providers', kind) = p
            /\ Len(providers') = Cardinality(KeysOf(providers'))
            /\ \A k \in Kinds \ {kind} :
                   /\ Has(providers', k) = Has(providers, k)
                   /\ Has(providers, k) => Get(providers', k) = Get(providers, k)]_vars

C19_Witness ==
    /\ last.op = "register"
    /\ last.outcome = "unhealthy"
    /\ Len(providers) = 1
    /\ ~healthy[providers[1][2]]
    /\ issued = 1

\* C20: every selection goes by the health the providers have at that
\* moment: a cache-missing generate call is given the provider selection
\* finds with the present health, never an unhealthy one, and fails only
\* when no registered provider is healthy now.
C20_HealthProbedAtEachSelection ==
    [][(GenerateStep /\ ~Has(request_cache, last'.key))
       => (/\ last'.invoked = ExpectedProvider(last'.prefs)
           /\ last'.invoked # None => healthy[last'.invoked]
           /\ (last'.outcome = "error") = (HealthyRegistered = {}))]_vars

C20_Witness ==
    /\ Has(inflight, 1)
    /\ Len(providers) = 2
    /\ Get(inflight, 1).provider = providers[1][2]
    /\ ~healthy[providers[1][2]]
    /\ last.op = "generate"
    /\ last.call = 2
    /\ last.prefs = <<>>
    /\ last.invoked = providers[2][2]

\* the instances pooled for a kind, none when the kind was never added
PoolOf(pool, kind) == IF Has(pool, kind) THEN Get(pool, kind) ELSE <<>>

\* C21: no kind's pool ever holds more than max_pool_size instances: an
\* add below the maximum appends the instance, an add at the maximum leaves
\* the pool and the cursors as they were, and neither raises.
C21_PoolNeverExceedsMaximum ==
    [][/\ \A i \in 1..Len(pools') : Len(pools'[i][2]) <= max_pool_size
       /\ last'.op = "add" =>
             /\ last'.error = None
             /\ \E kind \in Kinds, p \in Providers :
                    /\ PoolOf(pools', kind) =
                          (IF Len(PoolOf(pools, kind)) < max_pool_size
                           THEN Append(PoolOf(pools, kind), p)
                           ELSE PoolOf(pools, kind))
                    /\ \A k \in Kinds \ {kind} : PoolOf(pools', k) = PoolOf(pools, k)
                    /\ Len(PoolOf(pools, kind)) = max_pool_size
                       => (pools' = pools /\ pool_usage' = pool_usage)
                    /\ \A k \in Kinds :
                           Has(pool_usage, k) => /\ Has(pool_usage', k)
                                                 /\ Get(pool_usage', k) = Get(pool_usage, k)]_vars

\* an add that followed a get of a pool already at its maximum of one
C21_Witness ==
    /\ last.op = "add"
    /\ max_pool_size = 1
    /\ Len(pools) = 1
    /\ Len(pools[1][2]) = max_pool_size
    /\ pool_usage[1][2] >= 1

\* C22: get_provider returns the instance at index cursor mod the pool's
\* length and adds one to that kind's cursor; for a kind with no instance
\* it returns None and changes nothing.
C22_GetIsRoundRobin ==
    [][last'.op = "get" =>
        \E kind \in Kinds :
            LET instances == PoolOf(pools, kind)
            IN  /\ pools' = pools
                /\ IF instances = <<>>
                   THEN last'.invoked = None /\ pool_usage' = pool_usage
                   ELSE /\ last'.invoked =
                             instances[(Get(pool_usage, kind) % Len(instances)) + 1]
                        /\ Get(pool_usage', kind) = Get(pool_usage, kind) + 1
                        /\ \A k \in Kinds \ {kind} :
                               Has(pool_usage, k)
                               => Get(pool_usage', k) = Get(pool_usage, k)]_vars

C22_Witness ==
    /\ last.op = "get"
    /\ \E i \in 1..Len(pools) :
           /\ Len(pools[i][2]) = 2
           /\ pools[i][2][1] # pools[i][2][2]
           /\ pool_usage[i][2] = 3
           /\ last.invoked = pools[i][2][1]

\* the provider the generate call issued last was routed to
Routed == IF enable_batching THEN callers[issued].item.provider ELSE last.invoked

\* C23: with one kind registered and several distinct instances pooled, every
\* call the enhanced manager dispatches goes to the instance at the pool's
\* round-robin cursor, and the cursor advances by one.
C23_DispatchFollowsPoolCursor ==
    [][(/\ GenerateStep
        /\ last'.outcome = "pending"
        /\ Len(providers) = 1
        /\ Len(pools[1][2]) >= 2
        /\ pools[1][2][1] # pools[1][2][2])
       => /\ Routed' = PoolGetProvider(pools, pool_usage, pools[1][1]).provider
          /\ pool_usage' = PoolGetProvider(pools, pool_usage, pools[1][1]).usage]_vars

\* C24: a step of generate that ends in failure (no healthy provider, or
\* the provider raised) leaves the cache as it was, no cached Response is
\* a failure, and a request whose fingerprint is not cached is never
\* answered from the cache: it is dispatched or fails in selection.
C24_FailuresAreNotCached ==
    [][/\ (ReturnStep /\ last'.outcome = "error") => request_cache' = request_cache
       /\ \A i \in 1..Len(request_cache') : request_cache'[i][2].provider # None
       /\ (GenerateStep /\ ~Has(request_cache, last'.key))
          => /\ last'.outcome \in {"pending", "error"}
             /\ last'.outcome = "pending" => last'.invoked # None]_vars

\* a provider failure for a fingerprint while another one is cached
C24_Witness ==
    /\ last.op = "complete"
    /\ last.outcome = "error"
    /\ request_cache # <<>>
    /\ ~Has(request_cache, last.key)

\* C25: a call holds no slot while it sleeps in backoff: the step from a
\* running attempt into backoff gives the slot back, every slot not held by
\* a running attempt is free however many calls are sleeping, and the
\* attempt after the sleep takes a slot again (it waits behind the waiters
\* when none is free, and holds one only while its work runs).
C25_NoSlotHeldInBackoff ==
    [][\A t \in 1..MaxTasks :
        /\ (retry[t].pc = "running" /\ retry'[t].pc = "backoff")
           => FreeSlots(semaphore') = FreeSlots(semaphore) + 1
        /\ retry'[t].pc = "backoff"
           => FreeSlots(semaphore') = max_concurrent - Cardinality(InFlight')
        /\ retry'[t].attempt = retry[t].attempt + 1
           => IF Locked(semaphore)
              THEN /\ retry'[t].pc = "acquire"
                   /\ semaphore' = [semaphore EXCEPT !.waiters =
                                       Append(@, [task |-> t, done |-> FALSE])]
              ELSE /\ retry'[t].pc # "acquire"
                   /\ FreeSlots(semaphore') =
                         IF retry'[t].pc = "running"
                         THEN FreeSlots(semaphore) - 1 ELSE FreeSlots(semaphore)]_vars

\* max_concurrent other calls run while a call sleeps before its third attempt
C25_Witness ==
    /\ max_concurrent = MaxConcurrent
    /\ Cardinality(InFlight) = max_concurrent
    /\ \E t \in 1..MaxTasks : retry[t].pc = "backoff" /\ retry[t].attempt = 1

\* C26: a batch below batch_size is flushed only by the timer that its own
\* first item armed: a timer that starts a flush finds at the head of the
\* queue the item whose enqueueing started it, never the item of a later
\* batch.
C26_FlushedByOwnTimerOnly ==
    [][\A t \in 1..MaxTimerCalls :
        (timers[t] # "flush" /\ timers'[t] = "flush")
        => (pending_requests # <<>> /\ pending_requests[1].call = t)]_vars

\* the timers this step starts
Started == {t \in DOMAIN timers : timers[t] = "none" /\ timers'[t] = "sleeping"}
\* this step appends the item of call c to the queue
Enqueued(c) ==
    /\ callers[c].pc \in {"none", "lock"}
    /\ callers'[c].pc \in {"flush", "future"}

\* C27 as stated: exactly one timer is started for every batch, by the
\* step that enqueues its first item, and none by later items.
C27_OneTimerPerBatch ==
    [][/\ Started # {} => \E c \in DOMAIN callers : Enqueued(c)
       /\ \A c \in DOMAIN callers :
              Enqueued(c) => Started = IF pending_requests = <<>> THEN {c} ELSE {}]_vars

\* C27: a timer is started only by the step that enqueues the first item
\* of a new batch, exactly one then unless that item already fills the
\* batch (batch_size = 1, flushed at once with no timer); the second and
\* later items of a batch start none.
C27_OneTimerPerWaitingBatch ==
    [][/\ Started # {} => \E c \in DOMAIN callers : Enqueued(c)
       /\ \A c \in DOMAIN callers :
              Enqueued(c) => Started = IF pending_requests = <<>> /\ batch_size > 1
                                       THEN {c} ELSE {}]_vars

\* a second item has joined a batch of three and started no timer
C27_Witness ==
    /\ batch_size = 3
    /\ Len(pending_requests) = 2
    /\ timers[pending_requests[1].call] = "sleeping"
    /\ timers[pending_requests[2].call] = "none"

\* C28: generate removes a cache entry only by overflow eviction: a
\* completing call whose fingerprint is already resident replaces that
\* entry's Response and leaves the cached fingerprints as they were, one
\* whose fingerprint is new removes an entry only from a cache at capacity,
\* and no other step of generate changes the cache.
C28_RemovedOnlyByOverflowEviction ==
    [][inserts' = 0 =>
        IF insert_log' # insert_log
        THEN /\ Get(request_cache', last'.key) = last'.response
             /\ IF Has(request_cache, last'.key)
                THEN KeysOf(request_cache') = KeysOf(request_cache)
                ELSE Evicted(request_cache, request_cache') # {}
                     => Len(request_cache) >= cache_size
        ELSE request_cache' = request_cache]_vars

\* C29: a generate call whose fingerprint is resident returns the stored
\* Response as it is, whatever the providers' health, and changes only
\* requests_total and cache_hits, each by one: no provider is selected or
\* called, and the cache, errors and the registry stay as they were.
C29_CacheHitChangesOnlyCounters ==
    [][(GenerateStep /\ Has(request_cache, last'.key))
       => /\ last'.outcome = "response"
          /\ last'.response = Get(request_cache, last'.key)
          /\ last'.invoked = None
          /\ last'.error = None
          /\ stats' = [stats EXCEPT !.requests_total = @ + 1, !.cache_hits = @ + 1]
          /\ UNCHANGED <<providers, request_cache, cache_size, healthy, inflight,
                         inserts, insert_log>>]_vars

\* the last call hits a Response stored earlier, its latency included
C29_Witness ==
    /\ last.op = "generate"
    /\ last.outcome = "response"
    /\ last.response.latency_ms = 1
    /\ Has(request_cache, last.key)
    /\ Get(request_cache, last.key) = last.response
    /\ stats.cache_hits = 1
    /\ stats.requests_total = MaxCalls

\* C30: the pending queue never holds more than batch_size items, it holds
\* fewer than batch_size whenever the batch lock is free, and every wave a
\* flush starts has at least one and at most batch_size requests.
C30_QueueAndWavesWithinBatchSize ==
    [][/\ Len(pending_requests') <= batch_size
       /\ batch_lock'.holder = NoOwner => Len(pending_requests') < batch_size
       /\ \A owner \in Flushing' \ Flushing :
              /\ Cardinality(WaveOf(owner)') >= 1
              /\ Cardinality(WaveOf(owner)') <= batch_size]_vars

\* a timer has flushed two waiting requests of a batch of three
C30_Witness ==
    /\ batch_size = 3
    /\ \E t \in DOMAIN timers :
           /\ timers[t] = "flush"
           /\ batch_lock.holder = Timer(t)
           /\ Cardinality(WaveOf(Timer(t))) = 2

\* the provider calls of a wave that have not completed
WaveInFlight == {d \in DOMAIN tasks : tasks[d].pc # "none"}

\* C31: the batch lock is held by the flushing owner until every provider
\* call of its wave has completed: while a wave is in flight nothing is
\* enqueued and no task of another wave is created, a generate call that
\* arrives then waits for the lock, and the caller whose add_request
\* started the flush leaves it only once the wave is empty.
C31_LockHeldForWholeFlush ==
    [][/\ \A d \in WaveInFlight : batch_lock.holder = tasks[d].owner
       /\ WaveInFlight # {}
          => /\ pending_requests' = pending_requests
             /\ WaveInFlight' \subseteq WaveInFlight
             /\ (GenerateStep /\ last'.outcome = "pending")
                => callers'[issued'].pc = "lock"
       /\ \A c \in DOMAIN callers :
              (callers[c].pc = "flush" /\ callers'[c].pc # "flush")
              => (WaveOf(Caller(c)) = {} /\ batch_lock.holder = Caller(c))]_vars

\* the flushing caller's own call is done, a slower call of its wave still
\* runs, and a later request waits for the lock
C31_Witness ==
    \E c \in DOMAIN callers :
        /\ callers[c].pc = "flush"
        /\ futures[c].state = "result"
        /\ \E d \in WaveOf(Caller(c)) : d # c /\ tasks[d].pc = "running"
        /\ \E e \in DOMAIN callers : callers[e].pc = "lock"
====
